---- MODULE Spec2Model ----
(***************************************************************************)
(* DiamondFinder (src/hacks/diamonds.py): a scanner that records, in a     *)
(* dictionary from diamond text to the list of tags where it was found,    *)
(* the runs of alphabet characters of a line whose length lies between     *)
(* minlen and maxlen.                                                      *)
(*                                                                         *)
(* Three specifications share the variables below, one per layer:          *)
(*   SpecLine    scanline, one character of the for loop per step;         *)
(*   SpecStream  scan / scantext / scanstream, one line per step;          *)
(*   SpecWalk    scandir / scanfile, one file per step.                    *)
(* The two upper layers run the lower ones as operators (ScanLine,         *)
(* ScanStream), which fold the same step operators the lower               *)
(* specifications take one at a time.                                      *)
(*                                                                         *)
(* notify_diamonds only prints (line 177-178) and is left out.             *)
(***************************************************************************)
EXTENDS Integers, Sequences, FiniteSets, TLC

VARIABLES
    chars, minlen, maxlen,      \* self.chars, self.minlen, self.maxlen
    results,                    \* the defaultdict(list) the engine is: diamond -> tags
    pc,                         \* where the running operation stands
    todo,                       \* SpecLine: the lines still to be handed to scanline
    line, linetag, pos,         \* scanline: its arguments, and the for loop's position
    diamond_array, index,       \* scanline: its locals
    before,                     \* history: results when the running scanline was called
    calls,                      \* history: number of scanline calls made
    scanned,                    \* history: the lines handed to scanline so far
    source, tagarg,             \* scan: its arguments source and tag
    op,                         \* the public operation called, "" before the call
    content,                    \* SpecStream: the text, or the bytes of the stream, scanned
    tag,                        \* scantext, scanstream: the tag argument
    count,                      \* scantext, scanstream: the line counter
    lines,                      \* scantext: text.split('\n')
    raw, decoded,               \* the stream: bytes not yet read, characters decoded and not yet returned
    warned,                     \* the warnings issued, in order
    found,                      \* history: the <<diamond, tag>> of every add_diamond call, in order
    fs,                         \* SpecWalk: the file system under the scanned directory
    deep, include, exclude,     \* scandir: its arguments
    stack,                      \* os.walk: the directories still to be listed
    pending,                    \* the entries of the listed directory not yet iterated over
    passed,                     \* history: the files handed to scanfile, in order
    opened                      \* history: the files scanfile tried to open, in order

lineVars == <<todo, pos, diamond_array, index, before, calls, scanned>>
walkVars == <<fs, deep, include, exclude, stack, pending, passed, opened>>
streamVars == <<op, content, tag, count, lines, raw, decoded, warned>>
scanVars == <<source, tagarg>>
vars == <<chars, minlen, maxlen, results, pc, todo, line, linetag, pos,
          diamond_array, index, before, calls,
          op, content, tag, count, lines, raw, decoded, warned, found,
          fs, deep, include, exclude, stack, pending, passed, opened,
          scanned, source, tagarg>>

----------------------------------------------------------------------------
(* Bounds of the model *)

\* longest line handed to scanline alone
MaxLineLen == 4
\* longest line of a two-line sequence
MaxShortLen == 2
\* largest maxlen a configuration may have
MaxMaxLen == 3
\* largest minlen a configuration may have
MaxMinLen == 3

----------------------------------------------------------------------------
(* Characters *)

NL == "\n"
Chars == {"a", "b", NL}

\* ord(char), line 168
Ord(c) == CASE c = "a" -> 97 [] c = "b" -> 98 [] c = NL -> 10

\* one byte decoded as utf-8, line 172 (the model's characters are ASCII;
\* bytearray(n) is n zero bytes, and byte 0 decodes to NUL)
Chr(n) == CASE n = 97 -> "a" [] n = 98 -> "b" [] n = 10 -> NL [] OTHER -> "NUL"

\* diamond_array[:index].decode('utf-8'), line 172
Decode(arr, n) == [i \in 1..n |-> Chr(arr[i])]

\* bytearray(self.maxlen), line 162
ByteArray(n) == [i \in 1..n |-> 0]

SeqsUpTo(S, n) == UNION {[1..k -> S] : k \in 0..n}

----------------------------------------------------------------------------
(* Construction *)

\* the configurations a caller may hand to the constructor; the empty
\* alphabet, minlen = 0 and minlen > maxlen are among them
Alphabets == {{}, {"a"}, {"a", "b"}}
Configs == [chars : Alphabets, minlen : 0..MaxMinLen, maxlen : 1..MaxMaxLen]

\* 0 < minLen <= maxLen and a non-empty alphabet
ValidConfig == chars # {} /\ 0 < minlen /\ minlen <= maxlen

\* DiamondFinder.__init__: stores its arguments unchecked; the dictionary is empty
DiamondFinderInit(c) ==
    /\ chars = c.chars
    /\ minlen = c.minlen
    /\ maxlen = c.maxlen
    /\ results = <<>>
    /\ found = <<>>

----------------------------------------------------------------------------
(* add_diamond and scanline *)

\* number of tags recorded under a key (0 when the key is absent)
Occ(d, key) == IF key \in DOMAIN d THEN Len(d[key]) ELSE 0

\* add_diamond that replaces the list of a key instead of appending to it
add_diamond_Overwrite(e, diamond, t) ==
    [e EXCEPT
        !.dict = [k \in DOMAIN e.dict \cup {diamond} |->
                     IF k = diamond THEN <<t>> ELSE e.dict[k]],
        !.found = Append(@, <<diamond, t>>)]

\* add_diamond that creates a missing key with an empty list and appends
\* only to a key it finds
add_diamond_CreateEmpty(e, diamond, t) ==
    [e EXCEPT
        !.dict = IF diamond \in DOMAIN e.dict
                 THEN [e.dict EXCEPT ![diamond] = Append(@, t)]
                 ELSE [k \in DOMAIN e.dict \cup {diamond} |->
                          IF k = diamond THEN <<>> ELSE e.dict[k]],
        !.found = Append(@, <<diamond, t>>)]

\* add_diamond that records only the first occurrence of a text
add_diamond_KeepFirst(e, diamond, t) ==
    [e EXCEPT
        !.dict = IF diamond \in DOMAIN e.dict
                 THEN e.dict
                 ELSE [k \in DOMAIN e.dict \cup {diamond} |->
                          IF k = diamond THEN <<t>> ELSE e.dict[k]],
        !.found = Append(@, <<diamond, t>>)]

\* add_diamond that puts the new tag in front of the list
add_diamond_Prepend(e, diamond, t) ==
    [e EXCEPT
        !.dict = IF diamond \in DOMAIN e.dict
                 THEN [e.dict EXCEPT ![diamond] = <<t>> \o @]
                 ELSE [k \in DOMAIN e.dict \cup {diamond} |->
                          IF k = diamond THEN <<t>> ELSE e.dict[k]],
        !.found = Append(@, <<diamond, t>>)]

\* add_diamond: self[diamond].append(tag); the defaultdict creates the key.
\* e is any record that holds the dictionary (dict) and the call history (found)
add_diamond(e, diamond, t) ==
    [e EXCEPT
        !.dict = IF diamond \in DOMAIN e.dict
                 THEN [e.dict EXCEPT ![diamond] = Append(@, t)]
                 ELSE [k \in DOMAIN e.dict \cup {diamond} |->
                          IF k = diamond THEN <<t>> ELSE e.dict[k]],
        !.found = Append(@, <<diamond, t>>)]

\* ScanChar that decodes the whole buffer instead of its first index bytes
ScanChar_DecodeWhole(s, char, t) ==
    IF char \in chars
    THEN IF s.index >= maxlen
         THEN s
         ELSE [s EXCEPT !.arr[s.index + 1] = Ord(char), !.index = s.index + 1]
    ELSE [(IF minlen <= s.index /\ s.index <= maxlen
           THEN add_diamond(s, Decode(s.arr, maxlen), t)
           ELSE s) EXCEPT !.index = 0]

\* ScanChar that discards a character only when index exceeds maxlen
ScanChar_OffByOne(s, char, t) ==
    IF char \in chars
    THEN IF s.index > maxlen
         THEN s
         ELSE [s EXCEPT !.arr[s.index + 1] = Ord(char), !.index = s.index + 1]
    ELSE [(IF minlen <= s.index /\ s.index <= maxlen
           THEN add_diamond(s, Decode(s.arr, s.index), t)
           ELSE s) EXCEPT !.index = 0]

\* ScanChar with the lower bound of line 171 taken as exclusive
ScanChar_ExclusiveMin(s, char, t) ==
    IF char \in chars
    THEN IF s.index >= maxlen
         THEN s
         ELSE [s EXCEPT !.arr[s.index + 1] = Ord(char), !.index = s.index + 1]
    ELSE [(IF minlen < s.index /\ s.index <= maxlen
           THEN add_diamond(s, Decode(s.arr, s.index), t)
           ELSE s) EXCEPT !.index = 0]

\* the body of scanline's for loop for one character; s holds the locals
\* diamond_array (arr) and index, the dictionary and the call history
ScanChar(s, char, t) ==
    IF char \in chars
    THEN IF s.index >= maxlen
         THEN s
         ELSE [s EXCEPT !.arr[s.index + 1] = Ord(char), !.index = s.index + 1]
    ELSE [(IF minlen <= s.index /\ s.index <= maxlen
           THEN add_diamond(s, Decode(s.arr, s.index), t)
           ELSE s) EXCEPT !.index = 0]

RECURSIVE ScanFrom(_, _, _, _)
ScanFrom(s, l, i, t) ==
    IF i > Len(l) THEN s ELSE ScanFrom(ScanChar(s, l[i], t), l, i + 1, t)

\* scanline as one operation: the dictionary and the history of e after
\* scanning line l with tag t
ScanLine(e, l, t) ==
    LET s == ScanFrom([arr |-> ByteArray(maxlen), index |-> 0,
                       dict |-> e.dict, found |-> e.found], l, 1, t)
    IN [dict |-> s.dict, found |-> s.found]

----------------------------------------------------------------------------
(* SpecLine: scanline, step by step *)

Lines == SeqsUpTo(Chars, MaxLineLen)
ShortLines == SeqsUpTo(Chars, MaxShortLen)

InitLine ==
    /\ \E c \in Configs : DiamondFinderInit(c)
    /\ todo \in {<<l>> : l \in Lines} \cup (ShortLines \X ShortLines)
    /\ pc = "idle"
    /\ line = <<>> /\ linetag = <<>> /\ pos = 0
    /\ diamond_array = <<>> /\ index = 0
    /\ before = <<>> /\ calls = 0 /\ scanned = <<>>
    /\ source = <<>> /\ tagarg = <<>>
    /\ op = "" /\ content = <<>> /\ tag = <<>> /\ count = 0 /\ lines = <<>>
    /\ raw = <<>> /\ decoded = <<>> /\ warned = <<>>
    /\ fs = <<>> /\ deep = FALSE /\ include = <<>> /\ exclude = <<>>
    /\ stack = <<>> /\ pending = {} /\ passed = <<>> /\ opened = <<>>

\* scanline entered with the buffer and the run length the call before left
ScanLineCall_KeepRun ==
    /\ pc = "idle" /\ todo # <<>>
    /\ line' = Head(todo) /\ todo' = Tail(todo)
    /\ linetag' = <<calls + 1>>
    /\ calls' = calls + 1
    /\ scanned' = Append(scanned, Head(todo))
    /\ before' = results
    /\ diamond_array' = IF calls = 0 THEN ByteArray(maxlen) ELSE diamond_array
    /\ index' = IF calls = 0 THEN 0 ELSE index
    /\ pos' = 1
    /\ pc' = "scanline"
    /\ UNCHANGED <<chars, minlen, maxlen, results, found, streamVars, walkVars, scanVars>>

\* scanline is entered: lines 162-163
ScanLineCall ==
    /\ pc = "idle" /\ todo # <<>>
    /\ line' = Head(todo) /\ todo' = Tail(todo)
    /\ linetag' = <<calls + 1>>
    /\ calls' = calls + 1
    /\ scanned' = Append(scanned, Head(todo))
    /\ before' = results
    /\ diamond_array' = ByteArray(maxlen)
    /\ index' = 0
    /\ pos' = 1
    /\ pc' = "scanline"
    /\ UNCHANGED <<chars, minlen, maxlen, results, found, streamVars, walkVars, scanVars>>

\* one iteration of the for loop: lines 164-174
ScanLineStep ==
    /\ pc = "scanline" /\ pos <= Len(line)
    /\ LET s == ScanChar([arr |-> diamond_array, index |-> index,
                          dict |-> results, found |-> found], line[pos], linetag)
       IN /\ diamond_array' = s.arr
          /\ index' = s.index
          /\ results' = s.dict
          /\ found' = s.found
    /\ pos' = pos + 1
    /\ UNCHANGED <<chars, minlen, maxlen, pc, todo, line, linetag, before, calls, scanned,
                   streamVars, walkVars, scanVars>>

\* the for loop is exhausted and scanline returns
ScanLineReturn ==
    /\ pc = "scanline" /\ pos > Len(line)
    /\ pc' = "returned"
    /\ UNCHANGED <<chars, minlen, maxlen, results, found, todo, line, linetag, pos,
                   diamond_array, index, before, calls, scanned, streamVars, walkVars, scanVars>>

\* the caller goes on
ScanLineNext ==
    /\ pc = "returned"
    /\ pc' = "idle"
    /\ UNCHANGED <<chars, minlen, maxlen, results, found, todo, line, linetag, pos,
                   diamond_array, index, before, calls, scanned, streamVars, walkVars, scanVars>>

NextLine == ScanLineCall \/ ScanLineStep \/ ScanLineReturn \/ ScanLineNext

SpecLine == InitLine /\ [][NextLine]_vars

----------------------------------------------------------------------------
(* Properties of scanline (SpecLine) *)

\* line[i..j] is a maximal run of alphabet characters of l
MaximalRun(l, i, j) ==
    /\ 1 <= i /\ i <= j /\ j <= Len(l)
    /\ \A k \in i..j : l[k] \in chars
    /\ i = 1 \/ l[i - 1] \notin chars
    /\ j = Len(l) \/ l[j + 1] \notin chars

\* the keys that gained a tag during the running (or last) scanline call
Recorded == {key \in DOMAIN results : Occ(results, key) > Occ(before, key)}

\* C1: under a valid configuration, every diamond a scanline call records is
\* a maximal run of its line, so a run longer than maxlen records nothing,
\* not even its first maxlen characters.
C1_RecordedIsMaximalRun ==
    (ValidConfig /\ pc = "returned") =>
        \A key \in Recorded :
            \E i \in 1..Len(line), j \in 1..Len(line) :
                MaximalRun(line, i, j) /\ SubSeq(line, i, j) = key

\* the line is a run of alphabet characters, no longer than maxlen, followed
\* by one character that is not in the alphabet
RunThenTerminator ==
    /\ Len(line) >= 1
    /\ \A k \in 1..(Len(line) - 1) : line[k] \in chars
    /\ line[Len(line)] \notin chars
    /\ Len(line) - 1 <= maxlen

\* C2: for a line made of a run of L <= maxlen alphabet characters and a
\* terminator, scanline records exactly one occurrence, the full run under
\* the call's tag, when minlen <= L, and nothing when L < minlen.
C2_RunWithinBounds ==
    (pc = "returned" /\ RunThenTerminator) =>
        LET run == SubSeq(line, 1, Len(line) - 1)
            hit == minlen <= Len(run)
        IN /\ \A key \in DOMAIN results \cup DOMAIN before \cup {run} :
                Occ(results, key) - Occ(before, key)
                    = IF key = run /\ hit THEN 1 ELSE 0
           /\ hit => results[run][Len(results[run])] = linetag

\* a run of exactly maxlen > minlen characters, of both letters, was
\* scanned and recorded once
C2_Witness ==
    /\ pc = "returned" /\ RunThenTerminator /\ ValidConfig
    /\ Len(line) - 1 = maxlen /\ minlen < maxlen
    /\ line[1] # line[2]
    /\ Occ(results, SubSeq(line, 1, Len(line) - 1)) = 1

----------------------------------------------------------------------------
(* Text and streams *)

\* a byte sequence that is not valid utf-8
BAD == "\\xff"
Bytes == Chars \cup {BAD}

\* position of the first c in q, 0 when there is none
Find(q, c) ==
    IF \E k \in 1..Len(q) : q[k] = c
    THEN CHOOSE k \in 1..Len(q) : q[k] = c /\ \A m \in 1..(k - 1) : q[m] # c
    ELSE 0

\* text.split('\n'), line 73
RECURSIVE Split(_)
Split(text) ==
    LET k == Find(text, NL)
    IN IF k = 0 THEN <<text>>
       ELSE <<SubSeq(text, 1, k - 1)>> \o Split(SubSeq(text, k + 1, Len(text)))

\* number of bytes the text layer of a file object reads and decodes at a
\* time (8192 in CPython; scaled down)
ChunkSize == 2

\* a readline whose failed read leaves the stream where it was
RECURSIVE ReadLine_NoConsume(_, _)
ReadLine_NoConsume(r, dec) ==
    LET k == Find(dec, NL)
    IN IF k > 0
       THEN [error |-> FALSE, line |-> SubSeq(dec, 1, k),
             raw |-> r, decoded |-> SubSeq(dec, k + 1, Len(dec))]
       ELSE IF r = <<>>
       THEN [error |-> FALSE, line |-> dec, raw |-> r, decoded |-> <<>>]
       ELSE LET n == IF Len(r) < ChunkSize THEN Len(r) ELSE ChunkSize
                chunk == SubSeq(r, 1, n)
                rest == SubSeq(r, n + 1, Len(r))
            IN IF \E i \in 1..n : chunk[i] = BAD
               THEN [error |-> TRUE, line |-> <<>>, raw |-> r, decoded |-> dec]
               ELSE ReadLine_NoConsume(rest, dec \o chunk)

\* stream.readline(), line 142, for the file object line 115 opens
\* (io.TextIOWrapper, strict utf-8): the next line from the decoded
\* characters; while they hold no newline, one more chunk of bytes is read
\* and decoded as a whole. A chunk that does not decode raises
\* UnicodeDecodeError: its bytes are consumed, and so is the part of the line
\* read so far. At the end of the bytes what is left is returned, the empty
\* string once nothing is.
RECURSIVE ReadLine(_, _)
ReadLine(r, dec) ==
    LET k == Find(dec, NL)
    IN IF k > 0
       THEN [error |-> FALSE, line |-> SubSeq(dec, 1, k),
             raw |-> r, decoded |-> SubSeq(dec, k + 1, Len(dec))]
       ELSE IF r = <<>>
       THEN [error |-> FALSE, line |-> dec, raw |-> r, decoded |-> <<>>]
       ELSE LET n == IF Len(r) < ChunkSize THEN Len(r) ELSE ChunkSize
                chunk == SubSeq(r, 1, n)
                rest == SubSeq(r, n + 1, Len(r))
            IN IF \E i \in 1..n : chunk[i] = BAD
               THEN [error |-> TRUE, line |-> <<>>, raw |-> rest, decoded |-> <<>>]
               ELSE ReadLine(rest, dec \o chunk)

\* one iteration of scanstream's while loop, lines 141-154; s holds the
\* stream (raw, decoded), count, the dictionary, the call history, the
\* warnings, the line handed to scanline and whether the loop was left
StreamIter(s, t) ==
    LET r == ReadLine(s.raw, s.decoded)
        read == [s EXCEPT !.raw = r.raw, !.decoded = r.decoded, !.count = s.count + 1]
    IN IF r.error
       THEN [read EXCEPT !.warned = Append(s.warned, <<s.count, t>>)]
       ELSE IF r.line = <<>>
       THEN [read EXCEPT !.done = TRUE]
       ELSE LET e == ScanLine(s, r.line, Append(t, s.count))
            IN [read EXCEPT !.dict = e.dict, !.found = e.found, !.line = r.line]

\* one iteration of scantext's for loop, lines 74-76
TextIter(e, ls, n, t) == ScanLine(e, Append(ls[n], NL), Append(t, n))

----------------------------------------------------------------------------
(* SpecStream: scantext and scanstream, line by line *)

\* longest text or stream content
MaxTextLen == 4

Texts == SeqsUpTo(Chars, MaxTextLen)
Contents == SeqsUpTo(Bytes, MaxTextLen)
Tags == {<<>>, <<"t">>}

InitStream ==
    /\ \E c \in Configs : DiamondFinderInit(c)
    /\ pc = "idle" /\ op = ""
    /\ content \in Contents
    /\ tag \in Tags
    /\ count = 0 /\ lines = <<>> /\ raw = <<>> /\ decoded = <<>> /\ warned = <<>>
    /\ line = <<>> /\ linetag = <<>>
    /\ todo = <<>> /\ pos = 0 /\ diamond_array = <<>> /\ index = 0
    /\ before = <<>> /\ calls = 0 /\ scanned = <<>>
    /\ source = <<>> /\ tagarg = <<>>
    /\ fs = <<>> /\ deep = FALSE /\ include = <<>> /\ exclude = <<>>
    /\ stack = <<>> /\ pending = {} /\ passed = <<>> /\ opened = <<>>

\* scantext(content, tag) is called: line 73
ScanTextCall ==
    /\ pc = "idle" /\ op = "" /\ content \in Texts
    /\ op' = "scantext"
    /\ lines' = Split(content)
    /\ count' = 1
    /\ pc' = "scantext"
    /\ UNCHANGED <<chars, minlen, maxlen, results, found, line, linetag, lineVars,
                   content, tag, raw, decoded, warned, walkVars, scanVars>>

\* one iteration of scantext's loop
ScanTextStep ==
    /\ pc = "scantext" /\ count <= Len(lines)
    /\ LET e == TextIter([dict |-> results, found |-> found], lines, count, tag)
       IN results' = e.dict /\ found' = e.found
    /\ line' = Append(lines[count], NL)
    /\ linetag' = Append(tag, count)
    /\ count' = count + 1
    /\ UNCHANGED <<chars, minlen, maxlen, pc, lineVars, op, content, tag, lines,
                   raw, decoded, warned, walkVars, scanVars>>

\* scantext's loop is exhausted
ScanTextReturn ==
    /\ pc = "scantext" /\ count > Len(lines)
    /\ pc' = "returned"
    /\ UNCHANGED <<chars, minlen, maxlen, results, found, line, linetag, lineVars,
                   streamVars, walkVars, scanVars>>

\* scanstream(stream, tag) is called on a stream over the bytes of content: line 139
ScanStreamCall ==
    /\ pc = "idle" /\ op = ""
    /\ op' = "scanstream"
    /\ raw' = content /\ decoded' = <<>>
    /\ count' = 1
    /\ pc' = "scanstream"
    /\ UNCHANGED <<chars, minlen, maxlen, results, found, line, linetag, lineVars,
                   content, tag, lines, warned, walkVars, scanVars>>

\* one iteration of scanstream's loop; leaving the loop returns
ScanStreamStep ==
    /\ pc = "scanstream"
    /\ LET s == StreamIter([raw |-> raw, decoded |-> decoded, count |-> count,
                            dict |-> results, found |-> found, warned |-> warned,
                            line |-> <<>>, done |-> FALSE], tag)
       IN /\ raw' = s.raw /\ decoded' = s.decoded /\ count' = s.count
          /\ results' = s.dict /\ found' = s.found /\ warned' = s.warned
          /\ line' = IF s.line # <<>> THEN s.line ELSE line
          /\ linetag' = IF s.line # <<>> THEN Append(tag, count) ELSE linetag
          /\ pc' = IF s.done THEN "returned" ELSE pc
    /\ UNCHANGED <<chars, minlen, maxlen, lineVars, op, content, tag, lines, walkVars, scanVars>>

NextStream ==
    \/ ScanTextCall \/ ScanTextStep \/ ScanTextReturn
    \/ ScanStreamCall \/ ScanStreamStep

SpecStream == InitStream /\ [][NextStream]_vars

----------------------------------------------------------------------------
(* Properties of scantext and scanstream (SpecStream) *)

\* the lines of a byte sequence, each with its newline; the last one has
\* none when the content does not end with a newline
RECURSIVE FileLines(_)
FileLines(c) ==
    LET k == Find(c, NL)
    IN IF c = <<>> THEN <<>>
       ELSE IF k = 0 THEN <<c>>
       ELSE <<SubSeq(c, 1, k)>> \o FileLines(SubSeq(c, k + 1, Len(c)))

Decodes(l) == \A i \in 1..Len(l) : l[i] # BAD

\* a reader that fails line by line: file line n is scanned under tag + (n,)
\* when it decodes, and warned about as line n when it does not
RECURSIVE PerLine(_, _, _, _)
PerLine(s, ls, n, t) ==
    IF n > Len(ls) THEN s
    ELSE PerLine(IF Decodes(ls[n])
                 THEN [s EXCEPT !.dict = ScanLine(s, ls[n], Append(t, n)).dict]
                 ELSE [s EXCEPT !.warned = Append(s.warned, <<n, t>>)],
                 ls, n + 1, t)

\* C3: every line scantext and scanstream hand to scanline ends with a
\* character that is not in the alphabet, and so a run within the bounds
\* that ends the source is recorded even without a trailing newline.
C3_TerminatorInvariant ==
    (ValidConfig /\ op \in {"scantext", "scanstream"}) =>
        /\ line # <<>> => line[Len(line)] \notin chars
        /\ (pc = "returned" /\ Decodes(content)) =>
              \A i \in 1..Len(content) :
                  (/\ MaximalRun(content, i, Len(content))
                   /\ minlen <= Len(content) - i + 1
                   /\ Len(content) - i + 1 <= maxlen)
                  => SubSeq(content, i, Len(content)) \in DOMAIN results

\* C5: a decode failure is local to its line: when scanstream returns, the
\* warnings name exactly the file lines that do not decode, and every other
\* line was scanned under its 1-based position in the file.
C5_DecodeFailureIsPerLine ==
    (ValidConfig /\ op = "scanstream" /\ pc = "returned") =>
        LET ref == PerLine([dict |-> <<>>, found |-> <<>>, warned |-> <<>>], FileLines(content), 1, tag)
        IN results = ref.dict /\ warned = ref.warned

\* C6: an engine built with an invalid configuration never gets to run a
\* scan operation to its return.
C6_InvalidConfigRejected ==
    ~ValidConfig => pc # "returned"

----------------------------------------------------------------------------
(* Files and directories *)

\* a whole scanstream call: the loop of lines 140-154 run to its break
RECURSIVE StreamLoop(_, _)
StreamLoop(s, t) == IF s.done THEN s ELSE StreamLoop(StreamIter(s, t), t)

\* scanstream(stream, t) on a stream over the given bytes; e holds the
\* dictionary, the call history and the warnings
ScanStream(e, bytes, t) ==
    LET s == StreamLoop([raw |-> bytes, decoded |-> <<>>, count |-> 1,
                         dict |-> e.dict, found |-> e.found, warned |-> e.warned,
                         line |-> <<>>, done |-> FALSE], t)
    IN [dict |-> s.dict, found |-> s.found, warned |-> s.warned]

\* Names are sequences of characters and paths are sequences of names.
D == <<"d">>
S == <<"s">>
U == <<"u">>
K == <<"k">>
A_T == <<"a", ".", "t">>
B_L == <<"b", ".", "l">>
DOT_L == <<".", "l">>
EXT_T == <<".", "t">>
EXT_L == <<".", "l">>
UP == <<".", ".">>

\* an optional argument: absent, one string, or a list
None == [type |-> "None"]
Str(x) == [type |-> "str", val |-> x]
List(xs) == [type |-> "list", val |-> xs]

\* position of the last c in q, 0 when there is none
RFind(q, c) ==
    IF \E k \in 1..Len(q) : q[k] = c
    THEN CHOOSE k \in 1..Len(q) : q[k] = c /\ \A m \in (k + 1)..Len(q) : q[m] # c
    ELSE 0

\* pathlib.Path(file).suffix, line 124: the last name from its last dot on,
\* empty when the dot is missing, leads the name or ends it
Suffix(file) ==
    LET name == file[Len(file)]
        k == RFind(name, ".")
    IN IF 1 < k /\ k < Len(name) THEN SubSeq(name, k, Len(name)) ELSE <<>>

\* length of the longest common prefix of two paths
RECURSIVE Common(_, _)
Common(p, q) ==
    IF p # <<>> /\ q # <<>> /\ Head(p) = Head(q)
    THEN 1 + Common(Tail(p), Tail(q)) ELSE 0

\* os.path.relpath(file, start), line 112
RelPath(file, start) ==
    LET c == Common(file, start)
    IN [i \in 1..(Len(start) - c) |-> UP] \o SubSeq(file, c + 1, Len(file))

\* check_extension with include read as "scan only these extensions"
check_extension_IncludeOnly(file, inc, exc) ==
    LET extension == Suffix(file)
    IN IF inc.type # "None"
          /\ extension \notin (IF inc.type = "str" THEN {inc.val} ELSE inc.val)
       THEN FALSE
       ELSE IF exc.type # "None"
               /\ extension \in (IF exc.type = "str" THEN {exc.val} ELSE exc.val)
       THEN FALSE
       ELSE TRUE

\* check_extension, lines 119-135
check_extension(file, inc, exc) ==
    LET extension == Suffix(file)
    IN IF inc.type # "None"
          /\ extension \in (IF inc.type = "str" THEN {inc.val} ELSE inc.val)
       THEN FALSE
       ELSE IF exc.type # "None"
               /\ extension \in (IF exc.type = "str" THEN {exc.val} ELSE exc.val)
       THEN FALSE
       ELSE TRUE

\* The directories of the tree, and the entries that are not directories:
\* fs gives each its kind ("absent", "file" for a regular file, "broken" for
\* a symbolic link to nothing), whether it may be read, and its bytes.
Root == <<D>>
DirPaths == {<<D>>, <<D, S>>, <<D, S, U>>}
FilePaths == {<<D, A_T>>, <<D, B_L>>, <<D, S, A_T>>, <<D, S, U, DOT_L>>}
LinkPath == <<D, K>>

Parent(p) == SubSeq(p, 1, Len(p) - 1)
Present(p) == fs[p].kind # "absent"

\* os.path.isfile(fullpath), line 96
isfile(p) == p \in DOMAIN fs /\ fs[p].kind = "file"

\* open(file, mode='r', encoding='utf-8') succeeds, line 115; on a file
\* that may not be read or a broken link it raises OSError
CanOpen(p) == isfile(p) /\ fs[p].readable

\* os.listdir(directory), line 94, as full paths
ListDir(dir) ==
    {p \in DOMAIN fs : Parent(p) = dir /\ Present(p)}
        \cup {p \in DirPaths : p # Root /\ Parent(p) = dir}

\* the dirs and files of one os.walk triple, line 85, as full paths
WalkDirs(dir) == ListDir(dir) \cap DirPaths
WalkFiles(dir) == ListDir(dir) \ DirPaths

\* the orders in which a set may be listed
Orders(xs) ==
    {q \in [1..Cardinality(xs) -> xs] : \A i, j \in DOMAIN q : q[i] = q[j] => i = j}

\* scanfile, lines 104-116; e holds the dictionary, the call history and the
\* warnings. opened: open() was called; raised: it raised.
scanfile(e, file, inc, exc, relpath, t) ==
    IF ~check_extension(file, inc, exc)
    THEN [dict |-> e.dict, found |-> e.found, warned |-> e.warned,
          opened |-> FALSE, raised |-> FALSE]
    ELSE LET filetag == IF relpath.type = "None" THEN file
                        ELSE RelPath(file, relpath.val)
             ftag == Append(t, filetag)
         IN IF ~CanOpen(file)
            THEN [dict |-> e.dict, found |-> e.found, warned |-> e.warned,
                  opened |-> TRUE, raised |-> TRUE]
            ELSE LET r == ScanStream(e, fs[file].content, ftag)
                 IN [dict |-> r.dict, found |-> r.found, warned |-> r.warned,
                     opened |-> TRUE, raised |-> FALSE]

----------------------------------------------------------------------------
(* SpecWalk: scandir, file by file *)

AB_NL == <<"a", "b", NL>>
A_NL_AB_NL == <<"a", NL, "a", "b", NL>>
FileContents == {AB_NL, A_NL_AB_NL}
\* bytes that do not decode, before a line that does
BAD_BAD_A_NL == <<BAD, BAD, "a", NL>>

FileNodes ==
    {[kind |-> "absent", readable |-> FALSE, content |-> <<>>],
     [kind |-> "file", readable |-> FALSE, content |-> <<>>]}
        \cup {[kind |-> "file", readable |-> TRUE, content |-> c] : c \in FileContents}
LinkNodes ==
    {[kind |-> "absent", readable |-> FALSE, content |-> <<>>],
     [kind |-> "broken", readable |-> FALSE, content |-> <<>>]}

FileSystems ==
    {[p \in FilePaths \cup {LinkPath} |-> IF p = LinkPath THEN l ELSE f[p]] :
        f \in [FilePaths -> FileNodes], l \in LinkNodes}
        \cup {[p \in FilePaths \cup {LinkPath} |->
                  IF p = LinkPath THEN l
                  ELSE IF p = <<D, A_T>>
                  THEN [kind |-> "file", readable |-> TRUE, content |-> BAD_BAD_A_NL]
                  ELSE f[p]] :
               f \in [FilePaths \ {<<D, A_T>>} -> FileNodes], l \in LinkNodes}

WalkConfigs == {[chars |-> {"a", "b"}, minlen |-> 1, maxlen |-> 2]}
Filters == {None, Str(EXT_T), List({EXT_L})}

InitWalk ==
    /\ \E c \in WalkConfigs : DiamondFinderInit(c)
    /\ pc = "idle" /\ op = ""
    /\ fs \in FileSystems
    /\ deep \in BOOLEAN
    /\ include \in Filters
    /\ exclude \in Filters
    /\ tag = <<"t">>
    /\ stack = <<>> /\ pending = {} /\ passed = <<>> /\ opened = <<>>
    /\ content = <<>> /\ count = 0 /\ lines = <<>>
    /\ raw = <<>> /\ decoded = <<>> /\ warned = <<>>
    /\ line = <<>> /\ linetag = <<>>
    /\ todo = <<>> /\ pos = 0 /\ diamond_array = <<>> /\ index = 0
    /\ before = <<>> /\ calls = 0 /\ scanned = <<>>
    /\ source = <<>> /\ tagarg = <<>>

engineVars == <<chars, minlen, maxlen, results, found, warned>>
idleVars == <<line, linetag, lineVars, content, tag, count, lines, raw, decoded,
              scanVars>>

\* scandir(Root, deep, tag, include=, exclude=) is called: lines 83-85, 94
ScanDirCall ==
    /\ pc = "idle" /\ op = ""
    /\ op' = "scandir"
    /\ pc' = "scandir"
    /\ stack' = IF deep THEN <<Root>> ELSE <<>>
    /\ pending' = IF deep THEN {} ELSE ListDir(Root)
    /\ UNCHANGED <<engineVars, idleVars, fs, deep, include, exclude, passed, opened>>

\* os.walk yields its next triple, line 85: the next directory is listed and
\* its subdirectories are walked before the directories left
WalkNext ==
    /\ pc = "scandir" /\ deep /\ pending = {} /\ stack # <<>>
    /\ pending' = WalkFiles(Head(stack))
    /\ \E order \in Orders(WalkDirs(Head(stack))) : stack' = order \o Tail(stack)
    /\ UNCHANGED <<engineVars, idleVars, pc, op, fs, deep, include, exclude,
                   passed, opened>>

\* one iteration of the loop over the listed entries, lines 86-92 and
\* 94-102; the entries come in any order. An exception of scanfile is not
\* caught and leaves scandir.
WalkEntry ==
    /\ pc = "scandir"
    /\ \E f \in pending :
        /\ pending' = pending \ {f}
        /\ IF ~deep /\ ~isfile(f)
           THEN UNCHANGED <<engineVars, pc, passed, opened>>
           ELSE LET r == scanfile([dict |-> results, found |-> found, warned |-> warned],
                                  f, include, exclude, Str(Root), Append(tag, Root))
                IN /\ results' = r.dict /\ found' = r.found /\ warned' = r.warned
                   /\ passed' = Append(passed, f)
                   /\ opened' = IF r.opened THEN Append(opened, f) ELSE opened
                   /\ pc' = IF r.raised THEN "raised" ELSE pc
                   /\ UNCHANGED <<chars, minlen, maxlen>>
    /\ UNCHANGED <<idleVars, op, fs, deep, include, exclude, stack>>

\* the loops are exhausted and scandir returns
ScanDirReturn ==
    /\ pc = "scandir" /\ pending = {} /\ stack = <<>>
    /\ pc' = "returned"
    /\ UNCHANGED <<engineVars, idleVars, op, walkVars>>

NextWalk == ScanDirCall \/ WalkNext \/ WalkEntry \/ ScanDirReturn

SpecWalk == InitWalk /\ [][NextWalk]_vars

----------------------------------------------------------------------------
(* Properties of scandir and scanfile (SpecWalk) *)

Range(q) == {q[i] : i \in DOMAIN q}

\* scandir has ended, by returning or by an exception
Over == pc \in {"returned", "raised"}

\* the extension of each entry of the tree: a.t has .t, b.l has .l, and the
\* names k and .l have none
Extension(p) ==
    CASE p[Len(p)] = A_T -> EXT_T
      [] p[Len(p)] = B_L -> EXT_L
      [] OTHER -> <<>>

\* the extension is in the given set; an absent set holds nothing, a string
\* is a set of one
InSet(filter, ext) ==
    /\ filter.type # "None"
    /\ \/ filter.type = "str" /\ ext = filter.val
       \/ filter.type = "list" /\ ext \in filter.val

PassesFilter(p) == ~InSet(include, Extension(p)) /\ ~InSet(exclude, Extension(p))

\* the regular files the traversal mode covers
RegularFiles == {p \in FilePaths : isfile(p)}
DirectFiles == {p \in RegularFiles : Parent(p) = Root}
InScope == IF deep THEN RegularFiles ELSE DirectFiles

\* C4: a file that cannot be opened is skipped and the walk goes on: scandir
\* is never left by the failure, and when it ends every file in its scope
\* that passes the filter and can be opened has been opened.
C4_OpenFailureIsLocal ==
    op = "scandir" =>
        /\ pc # "raised"
        /\ Over => \A p \in InScope : (PassesFilter(p) /\ CanOpen(p)) => p \in Range(opened)

\* a.t and b.l, alone in the directory, hold the same line "ab"
ExampleDir ==
    /\ \A p \in DOMAIN fs : Present(p) <=> p \in {<<D, A_T>>, <<D, B_L>>}
    /\ \A p \in {<<D, A_T>>, <<D, B_L>>} : fs[p].readable /\ fs[p].content = AB_NL

C8_TraversalModes ==
    op = "scandir" =>
        /\ \A i, j \in DOMAIN passed : passed[i] = passed[j] => i = j
        /\ ~deep => Range(passed) \subseteq DirectFiles
        /\ (Over /\ ~deep) => Range(passed) = DirectFiles
        /\ (Over /\ deep) => RegularFiles \subseteq Range(passed)
        /\ \A p \in Range(passed) : ~PassesFilter(p) => p \notin Range(opened)

\* the tags of the add_diamond calls made for a text, in call order
RECURSIVE TagsOf(_, _)
TagsOf(calls_, key) ==
    IF calls_ = <<>> THEN <<>>
    ELSE (IF Head(calls_)[1] = key THEN <<Head(calls_)[2]>> ELSE <<>>)
             \o TagsOf(Tail(calls_), key)

\* C9: occurrences are aggregated by exact text: every text found has one
\* key, whose tag sequence is the tags of all its occurrences so far, from
\* whatever file or line, in the order found.
C9_AggregatedByText ==
    \A key \in DOMAIN results \cup {e[1] : e \in Range(found)} :
        /\ key \in DOMAIN results
        /\ results[key] = TagsOf(found, key)
        /\ Len(results[key]) = Cardinality({i \in DOMAIN found : found[i][1] = key})

\* one key holds two tags that come from two different files
C9_Witness ==
    /\ pc = "returned"
    /\ \E key \in DOMAIN results :
          /\ Len(results[key]) = 2
          /\ results[key][1][3] # results[key][2][3]

\* C10: a diamond is a key iff it has been found at least once: the
\* dictionary is empty until the first occurrence and no key maps to an
\* empty tag sequence.
C10_KeyIffFound ==
    /\ DOMAIN results = {e[1] : e \in Range(found)}
    /\ \A key \in DOMAIN results : results[key] # <<>>
    /\ found = <<>> => DOMAIN results = {}

\* two different diamonds are keys after a scan
C10_Witness ==
    /\ pc = "returned"
    /\ Cardinality(DOMAIN results) = 2
    /\ Len(found) >= 3

\* key is a contiguous part of l
Occurs(key, l) ==
    \E i \in 1..(Len(l) - Len(key) + 1) : SubSeq(l, i, i + Len(key) - 1) = key

Alone(p) ==
    scanfile([dict |-> <<>>, found |-> <<>>, warned |-> <<>>],
             p, include, exclude, Str(Root), Append(tag, Root))

\* the tags file p has under a key when scanned alone
AloneTags(p, key) ==
    IF key \in DOMAIN Alone(p).dict THEN Alone(p).dict[key] ELSE <<>>

\* the files scanned so far
Scanned == {p \in Range(opened) : CanOpen(p)}

\* the tags of a tag sequence that name the file p
FromFile(q, p) == SelectSeq(q, LAMBDA t : t[Len(t) - 1] = SubSeq(p, 2, Len(p)))

\* C13: aggregation is commutative across files: in whatever order the
\* files were scanned, the keys are those the scanned files have when
\* scanned alone on a fresh engine, and under every key the tags of each
\* file are exactly its own tags; only the interleaving of different files'
\* tags depends on the order.
C13_CommutativeAcrossFiles ==
    op = "scandir" =>
        /\ DOMAIN results = UNION {DOMAIN Alone(p).dict : p \in Scanned}
        /\ \A key \in DOMAIN results :
              /\ \A p \in Scanned : FromFile(results[key], p) = AloneTags(p, key)
              /\ \A i \in DOMAIN results[key] :
                    \E p \in Scanned : FromFile(<<results[key][i]>>, p) # <<>>

\* two files holding the same diamond were scanned, b.l before a.t
C13_Witness ==
    /\ pc = "returned"
    /\ Len(opened) >= 2 /\ opened[1] = <<D, B_L>> /\ opened[2] = <<D, A_T>>
    /\ \E key \in DOMAIN results :
          /\ FromFile(results[key], <<D, A_T>>) # <<>>
          /\ FromFile(results[key], <<D, B_L>>) # <<>>

\* the add_diamond calls made by the k-th scanline call
CallsOfLine(k) == {i \in DOMAIN found : found[i][2] = <<k>>}

\* the characters of l that end a run
Terminators(l) == {j \in DOMAIN l : l[j] \notin chars}

\* C14: the run buffer and the run length belong to one scanline call and
\* start empty: every diamond recorded is a contiguous part of the one line
\* whose call recorded it, a call records at most one diamond per
\* terminator of its line, and a line without terminator records nothing,
\* so a run left open at the end of a line is dropped and never continued
\* by the next line.
C14_RunIsLocal ==
    /\ (pc = "scanline" /\ pos = 1) =>
          (index = 0 /\ diamond_array = ByteArray(maxlen))
    /\ \A i \in DOMAIN found : Occurs(found[i][1], scanned[found[i][2][1]])
    /\ \A k \in DOMAIN scanned :
          Cardinality(CallsOfLine(k)) <= Cardinality(Terminators(scanned[k]))
    /\ (pc = "returned" /\ Terminators(line) = {}) => results = before

\* a first line ended in an open run, and a second line that starts with an
\* alphabet character was scanned and recorded a diamond
C14_Witness ==
    /\ pc = "returned" /\ calls = 2
    /\ scanned[1] # <<>> /\ scanned[1][Len(scanned[1])] \in chars
    /\ scanned[2] # <<>> /\ scanned[2][1] \in chars
    /\ CallsOfLine(1) = {} /\ CallsOfLine(2) # {}

\* q is an initial part of r
IsPrefix(q, r) == Len(q) <= Len(r) /\ SubSeq(r, 1, Len(q)) = q

\* two tags of the same file: they differ in the line number at most
SameFile(t, u) ==
    Len(t) = Len(u) /\ SubSeq(t, 1, Len(t) - 1) = SubSeq(u, 1, Len(u) - 1)

\* under every key, the line numbers of the tags of one file do not decrease
LineNumbersAscend ==
    \A key \in DOMAIN results :
        \A i, j \in DOMAIN results[key] :
            (i < j /\ SameFile(results[key][i], results[key][j])) =>
                results[key][i][Len(results[key][i])]
                    <= results[key][j][Len(results[key][j])]

\* no step removes a key or changes the tags a key already has
StepAppendsOnly ==
    \A key \in DOMAIN results :
        key \in DOMAIN results' /\ IsPrefix(results[key], results'[key])

\* C15: the dictionary is append-only and in discovery order: every step of
\* a scan keeps every key and keeps each key's tag sequence as a prefix of
\* the new one, and within one file's tags under one key the line numbers
\* never decrease.
C15_AppendOnly == [](LineNumbersAscend) /\ [][StepAppendsOnly]_vars

\* a key holds two tags of the same source, of different lines, next to
\* another key
C15_Witness ==
    /\ pc = "returned"
    /\ Cardinality(DOMAIN results) >= 2
    /\ \E key \in DOMAIN results :
          /\ Len(results[key]) >= 2
          /\ results[key][1] # results[key][2]

----------------------------------------------------------------------------
(* SpecScan: the public scan(source, tag) *)

\* a tuple, an open text stream over the given bytes, and a value that is
\* neither a string nor a stream (bytes, a number, a path object)
Tuple(xs) == [type |-> "tuple", val |-> xs]
Stream(bytes) == [type |-> "stream", val |-> bytes]
Other == [type |-> "other"]

Sources ==
    {None, Other} \cup {Str(x) : x \in Texts} \cup {Stream(c) : c \in Contents}
TagArgs == {None, Str("t"), Tuple(<<>>), Tuple(<<"t">>)}

\* lines 62-65: the tag scan hands on
NormalTag(t) ==
    IF t.type = "None" THEN <<>>
    ELSE IF t.type # "tuple" THEN <<t.val>>
    ELSE t.val

InitScan ==
    /\ \E c \in WalkConfigs : DiamondFinderInit(c)
    /\ pc = "idle" /\ op = ""
    /\ source \in Sources
    /\ tagarg \in TagArgs
    /\ content = <<>> /\ tag = <<>>
    /\ count = 0 /\ lines = <<>> /\ raw = <<>> /\ decoded = <<>> /\ warned = <<>>
    /\ line = <<>> /\ linetag = <<>>
    /\ todo = <<>> /\ pos = 0 /\ diamond_array = <<>> /\ index = 0
    /\ before = <<>> /\ calls = 0 /\ scanned = <<>>
    /\ fs = <<>> /\ deep = FALSE /\ include = <<>> /\ exclude = <<>>
    /\ stack = <<>> /\ pending = {} /\ passed = <<>> /\ opened = <<>>

\* scan(source, tagarg), lines 60-69, up to the first iteration of the loop
\* of scantext or scanstream
ScanCall ==
    /\ pc = "idle" /\ op = ""
    /\ op' = "scan"
    /\ IF source.type = "None"
       THEN /\ pc' = "returned"
            /\ UNCHANGED <<content, tag, count, lines, raw, decoded>>
       ELSE /\ tag' = NormalTag(tagarg)
            /\ IF source.type = "str"
               THEN /\ content' = source.val
                    /\ lines' = Split(source.val)
                    /\ count' = 1
                    /\ pc' = "scantext"
                    /\ UNCHANGED <<raw, decoded>>
               ELSE IF source.type = "stream"
               THEN /\ content' = source.val
                    /\ raw' = source.val /\ decoded' = <<>>
                    /\ count' = 1
                    /\ pc' = "scanstream"
                    /\ UNCHANGED lines
               ELSE /\ pc' = "returned"
                    /\ UNCHANGED <<content, count, lines, raw, decoded>>
    /\ UNCHANGED <<chars, minlen, maxlen, results, found, warned, line, linetag,
                   lineVars, walkVars, scanVars>>

NextScan == ScanCall \/ ScanTextStep \/ ScanTextReturn \/ ScanStreamStep

SpecScan == InitScan /\ [][NextScan]_vars

\* C16: scan leaves the dictionary as it was when the source is None or is
\* neither a string nor a stream; for a string or a stream every tag it
\* records is the normalized tag (the empty tuple for no tag, a tuple of one
\* for a tag that is no tuple, the tuple itself otherwise) followed by the
\* 1-based number of the line of the source that holds the match.
C16_ScanDispatch ==
    op = "scan" =>
        /\ source.type \in {"None", "other"} => (results = <<>> /\ found = <<>>)
        /\ source.type \in {"str", "stream"} =>
              \A e \in Range(found) :
                  LET t == e[2]
                      n == t[Len(t)]
                      given == SubSeq(t, 1, Len(t) - 1)
                  IN /\ tagarg.type = "None" => given = <<>>
                     /\ tagarg.type = "str" => given = <<tagarg.val>>
                     /\ tagarg.type = "tuple" => given = tagarg.val
                     /\ n \in 1..Len(FileLines(source.val))
                     /\ Occurs(e[1], FileLines(source.val)[n])

\* C17: in every reachable state every key of the dictionary is made of
\* alphabet characters only and its length is at least minlen and at most
\* maxlen, also after lines with over-long runs or without terminator.
C17_KeysWellFormed ==
    \A key \in DOMAIN results :
        /\ \A i \in DOMAIN key : key[i] \in chars
        /\ minlen <= Len(key) /\ Len(key) <= maxlen

\* a line that starts with a run longer than maxlen was scanned and left a
\* key of maxlen characters
C17_Witness ==
    /\ pc = "returned" /\ ValidConfig
    /\ Len(line) > maxlen + 1
    /\ \A i \in 1..(maxlen + 1) : line[i] \in chars
    /\ \E key \in DOMAIN results : Len(key) = maxlen

\* scantext(text, t), lines 71-76, as a whole
RECURSIVE TextLoop(_, _, _, _)
TextLoop(e, ls, n, t) ==
    IF n > Len(ls) THEN e ELSE TextLoop(TextIter(e, ls, n, t), ls, n + 1, t)

scantext(e, text, t) == TextLoop(e, Split(text), 1, t)

\* a freshly constructed engine of the same configuration
Fresh == [dict |-> <<>>, found |-> <<>>, warned |-> <<>>]

\* C18: scantext and scanstream agree on content that decodes: whichever of
\* the two scanned the content, the diamonds and tags recorded, in order,
\* are those the other one records for the same content and tag on a fresh
\* engine, whether or not the content ends with a newline.
C18_TextAndStreamAgree ==
    (pc = "returned" /\ ValidConfig /\ Decodes(content)) =>
        /\ op = "scanstream" =>
              /\ results = scantext(Fresh, content, tag).dict
              /\ found = scantext(Fresh, content, tag).found
        /\ op = "scantext" =>
              /\ results = ScanStream(Fresh, content, tag).dict
              /\ found = ScanStream(Fresh, content, tag).found

\* what the stream still holds: bytes not read and characters not returned
Unread == Len(raw) + Len(decoded)

\* an iteration that stays in scanstream's loop has consumed part of the
\* stream, whether its read failed or not
ReadProgress == (pc = "scanstream" /\ pc' = "scanstream") => Unread' < Unread

\* the loop is left only by a read at the end of the stream
ReturnsAtEnd == (pc = "scanstream" /\ pc' = "returned") => Unread = 0

\* the reads made so far are at most one per byte of the stream, and the
\* one at its end
ReadsBounded == op = "scanstream" => count <= Len(content) + 2

IndexInBounds ==
    pc \in {"scanline", "returned"} =>
        /\ 0 <= index /\ index <= maxlen
        /\ Len(diamond_array) = maxlen

\* a step that writes a character writes it at a position below maxlen, and
\* changes nothing but that position
WriteInBounds ==
    (pc = "scanline" /\ diamond_array' # diamond_array) =>
        /\ index < maxlen /\ index' = index + 1
        /\ \A i \in 1..maxlen : i # index + 1 => diamond_array'[i] = diamond_array[i]

\* C20: at every step of scanline 0 <= index <= maxlen, and every write to
\* the buffer of maxlen bytes is at position index < maxlen, for every line
\* and every maxlen >= 1.
C20_BufferInBounds == [](IndexInBounds) /\ [][WriteInBounds]_vars

\* the buffer is full and a further alphabet character has been discarded
C20_Witness ==
    /\ pc = "scanline" /\ index = maxlen
    /\ pos = maxlen + 2
    /\ \A i \in 1..(pos - 1) : line[i] \in chars
    /\ diamond_array # ByteArray(maxlen)

====
